---------------------------- MODULE Spec2Model ----------------------------
(***************************************************************************)
(* Model of collect_gpu_code.py: the script that walks src/gpu, selects    *)
(* the *.rs and *.wgsl files and concatenates them, with a header each,    *)
(* into gpu_code.txt.                                                      *)
(*                                                                         *)
(* Text is modelled character by character: a string is a sequence of      *)
(* one-character strings.  The platform modelled is POSIX: os.sep is "/"   *)
(* and the text layer writes "\n" as it is (os.linesep = "\n").  Reading   *)
(* is Python's text mode with newline=None (universal newlines) and        *)
(* encoding utf-8.  Writes to the output are modelled write-through: the   *)
(* buffer of the text layer is flushed by close() on every path, so the    *)
(* file left behind by a run is what the model holds.  Failures of write() *)
(* itself (disk full) are not modelled.                                    *)
(***************************************************************************)
EXTENDS Integers, Sequences, FiniteSets, TLC

VARIABLES
    tree,        \* the source tree: directory id -> [name, state, dirs, files]
    outExists,   \* gpu_code.txt exists on disk
    outfile,     \* its contents (<<>> when it does not exist)
    outOpen,     \* the handle `out` is open
    inOpen,      \* the set of open input handles `f` (file ids)
    pc,          \* position of the interpreter in the module body
    stack,       \* os.walk: directories still to scan, top at the end
    root,        \* os.walk: path of the directory last yielded
    rootId,      \* id of that directory
    files,       \* os.walk: the `files` list last yielded
    fi,          \* index in `files` of the next filename of the inner loop
    printed,     \* number of completion messages printed by this run
    status,      \* exit status of the run: -1 while it runs
    run,         \* number of the run in progress (1, 2, ...)
    before,      \* [exists, data] of gpu_code.txt when this run started
    prevStatus,  \* exit status of the previous run (-1 before the first)
    headers,     \* history: ids of the files whose header this run wrote
    bodies,      \* history: ids of the files whose contents this run wrote
    trailers,    \* history: ids of the files whose trailing "\n\n" was written
    opened,      \* history: ids of the files this run tried to open
    outOpens,    \* history: times this run acquired the output handle
    outCloses    \* history: times this run released the output handle

vars == <<tree, outExists, outfile, outOpen, inOpen, pc, stack, root, rootId,
          files, fi, printed, status, run, before, prevStatus, headers,
          bodies, trailers, opened, outOpens, outCloses>>

-----------------------------------------------------------------------------
(* Bounds of the model. *)

\* Files in the source tree of Spec.
MaxFiles == 2
\* Length of the contents of the file under test in SpecText.
MaxContentLen == 3
\* Successive runs of the script on the same tree.
MaxRuns == 2

-----------------------------------------------------------------------------
(* Characters and text. *)

LF == "\n"
CR == "\r"
\* A byte that is not valid UTF-8 (0xFF).
BAD == "\\xff"

Repeat(c, n) == [i \in 1..n |-> c]

\* '='*60
DelimWidth == 60

Delim == Repeat("=", DelimWidth)

\* output_file = "gpu_code.txt": the output lives in the working directory,
\* outside gpu_folder; the model keeps it in outExists/outfile.
gpu_folder == <<"s", "r", "c", "/", "g", "p", "u">>

\* os.sep on the modelled platform
Sep == "/"

\* os.path.join(a, b) for a non-empty a and a relative b
Join(a, b) == a \o <<Sep>> \o b

IsPrefix(p, s) == Len(p) <= Len(s) /\ SubSeq(s, 1, Len(p)) = p

\* os.path.relpath(path, start) for a path below start
RelPath(path, start) ==
    IF IsPrefix(start \o <<Sep>>, path)
    THEN SubSeq(path, Len(start) + 2, Len(path))
    ELSE path

\* str.endswith(suffix)
EndsWith(s, suffix) ==
    /\ Len(s) >= Len(suffix)
    /\ SubSeq(s, Len(s) - Len(suffix) + 1, Len(s)) = suffix

SuffixRs == <<".", "r", "s">>
SuffixWgsl == <<".", "w", "g", "s", "l">>

\* A plausible slip: the comparison ignores case.
Lower(c) == CASE c = "R" -> "r" [] c = "S" -> "s" [] OTHER -> c
SelectedIgnoringCase(filename) ==
    LET low == [i \in 1..Len(filename) |-> Lower(filename[i])]
    IN  EndsWith(low, SuffixRs) \/ EndsWith(low, SuffixWgsl)

\* filename.endswith((".rs", ".wgsl"))
Selected(filename) ==
    EndsWith(filename, SuffixRs) \/ EndsWith(filename, SuffixWgsl)

\* The utf-8 decoder accepts the bytes.
Decodable(bytes) == \A i \in 1..Len(bytes) : bytes[i] # BAD

\* f.read() in text mode with newline=None: "\r\n" and a lone "\r" are
\* handed to the program as "\n".
RECURSIVE UniversalNewlines(_)
UniversalNewlines(bytes) ==
    IF bytes = <<>> THEN <<>>
    ELSE IF Head(bytes) = CR
         THEN <<LF>> \o UniversalNewlines(
                  IF Len(bytes) >= 2 /\ bytes[2] = LF
                  THEN Tail(Tail(bytes)) ELSE Tail(bytes))
         ELSE <<Head(bytes)>> \o UniversalNewlines(Tail(bytes))

\* A plausible slip: the file is read with newline="" (no translation).
ReadVerbatim(bytes) == bytes

\* f.read()
ReadText(bytes) == UniversalNewlines(bytes)

FilePrefix == <<"F", "I", "L", "E", ":", " ">>

\* A plausible slip: no blank line after the second delimiter line.
HeaderNoBlankLine(rel_path) ==
    Delim \o <<LF>> \o FilePrefix \o rel_path \o <<LF>> \o Delim \o <<LF>>

\* The three writes of lines 12-14.
HeaderText(rel_path) ==
    Delim \o <<LF>> \o FilePrefix \o rel_path \o <<LF>> \o Delim \o <<LF, LF>>

\* A plausible slip: a single newline after the contents.
TrailerOneNewline == <<LF>>

\* The write of line 17.
TrailerText == <<LF, LF>>

-----------------------------------------------------------------------------
(* The file system the script runs on. *)

File(name, bytes, readable) ==
    [name |-> name, bytes |-> bytes, readable |-> readable]

Dir(name, state, dirs, fs) ==
    [name |-> name, state |-> state, dirs |-> dirs, files |-> fs]

RootId == "root"
SubId == "sub"
SubName == <<"s", "u", "b">>

NameRs == <<"a", ".", "r", "s">>
NameWgsl == <<"b", ".", "w", "g", "s", "l">>
NameOtherRs == <<"c", ".", "r", "s">>
NameOtherWgsl == <<"d", ".", "w", "g", "s", "l">>
NameCrRs == <<"e", ".", "r", "s">>
NameUpper == <<"a", ".", "R", "S">>
NameInfix == <<"a", ".", "r", "s", "x">>
NameNoDot == <<"r", "s">>

\* The files a tree of Spec is made of: selected files with plain contents,
\* with contents ending in a newline, with a carriage return, with bytes
\* that are not utf-8, a file that cannot be opened, and files whose names
\* miss the suffixes by case, by position and by the dot.
FileKinds ==
    { File(NameRs, <<"x">>, TRUE),
      File(NameWgsl, <<"y", LF>>, TRUE),
      File(NameCrRs, <<"z", CR, LF>>, TRUE),
      File(NameOtherRs, <<"x">>, FALSE),
      File(NameOtherWgsl, <<"x", BAD>>, TRUE),
      File(NameUpper, <<"7">>, TRUE),
      File(NameInfix, <<"8">>, TRUE),
      File(NameNoDot, <<"9">>, TRUE) }

SeqsUpTo(S, n) == UNION { [1..k -> S] : k \in 0..n }

\* A directory listing holds every name once.
DistinctNames(fs) ==
    \A i, j \in 1..Len(fs) : fs[i].name = fs[j].name => i = j

OldText == <<"o", "l", "d", LF>>

MissingTree == (RootId :> Dir(gpu_folder, "missing", <<>>, <<>>))

\* src/gpu with one subdirectory; a directory that cannot be listed
\* ("denied") is one whose scandir raises OSError.
TreeOf(rootFiles, subState, subFiles) ==
    (RootId :> Dir(gpu_folder, "ok", <<SubId>>, rootFiles))
    @@ (SubId :> Dir(SubName, subState, <<>>, subFiles))

Trees ==
    {MissingTree} \cup
    UNION { { TreeOf(rf, st, sf) :
                st \in {"ok", "denied"},
                sf \in { f \in SeqsUpTo(FileKinds, MaxFiles - Len(rf)) :
                            DistinctNames(f) } } :
            rf \in { f \in SeqsUpTo(FileKinds, MaxFiles) : DistinctNames(f) } }

Alphabet == {"x", LF, CR, BAD}

\* The second file of a tree of SpecText, listed after the file under test.
Companion == File(NameWgsl, <<"y">>, TRUE)

TextTrees ==
    {MissingTree} \cup
    { TreeOf(IF inSub THEN <<>> ELSE <<f>> \o rest, st,
             IF inSub THEN <<f>> \o rest ELSE <<>>) :
        f \in { File(n, b, r) : n \in {NameRs, NameUpper},
                                b \in SeqsUpTo(Alphabet, MaxContentLen),
                                r \in BOOLEAN },
        rest \in {<<>>, <<Companion>>},
        inSub \in BOOLEAN,
        st \in {"ok", "denied"} }

InitProcess ==
    /\ outOpen = FALSE
    /\ inOpen = {}
    /\ pc = "open_out"
    /\ stack = <<>>
    /\ root = <<>>
    /\ rootId = RootId
    /\ files = <<>>
    /\ fi = 1
    /\ printed = 0
    /\ status = -1
    /\ headers = <<>>
    /\ bodies = <<>>
    /\ trailers = <<>>
    /\ opened = <<>>
    /\ outOpens = 0
    /\ outCloses = 0

InitOutput ==
    /\ outExists \in BOOLEAN
    /\ outfile = IF outExists THEN OldText ELSE <<>>
    /\ before = [exists |-> outExists, data |-> outfile]
    /\ run = 1
    /\ prevStatus = -1

Init ==
    /\ tree \in Trees
    /\ InitOutput
    /\ InitProcess

InitText ==
    /\ tree \in TextTrees
    /\ InitOutput
    /\ InitProcess

-----------------------------------------------------------------------------
(* The module body, statement by statement. *)

\* A plausible slip: mode "a" keeps what the file held.
OpenedForAppend(old) == old

\* open(output_file, "w"): what the file holds once it is open.
OpenedForWrite(old) == <<>>

\* Line 6: open(output_file, "w", encoding="utf-8") creates or truncates the
\* file; os.walk(gpu_folder) then starts with the top directory on its stack.
OpenOutput ==
    /\ pc = "open_out"
    /\ outExists' = TRUE
    /\ outfile' = OpenedForWrite(outfile)
    /\ outOpen' = TRUE
    /\ outOpens' = outOpens + 1
    /\ stack' = <<[id |-> RootId, path |-> gpu_folder]>>
    /\ pc' = "walk"
    /\ UNCHANGED <<tree, inOpen, root, rootId, files, fi, printed, status, run,
                   before, prevStatus, headers, bodies, trailers, opened,
                   outCloses>>

\* Line 6 when the file cannot be created (permission denied, invalid path):
\* open() raises before any handle exists.
OpenOutputFails ==
    /\ pc = "open_out"
    /\ pc' = "raise"
    /\ UNCHANGED <<tree, outExists, outfile, outOpen, inOpen, stack, root,
                   rootId, files, fi, printed, status, run, before, prevStatus,
                   headers, bodies, trailers, opened, outOpens, outCloses>>

Reverse(s) == [i \in 1..Len(s) |-> s[Len(s) + 1 - i]]

Pending(top, dirs) ==
    [i \in 1..Len(dirs) |->
        [id |-> dirs[i], path |-> Join(top.path, tree[dirs[i]].name)]]

\* A plausible slip: onerror re-raises, so a directory that cannot be
\* scanned ends the walk with an error.
ScanErrorRaised == "raise"

\* os.walk with onerror=None: the OSError of scandir is dropped and the
\* walk goes on with the next directory.
ScanErrorIgnored == "walk"

\* Line 7: the generator's next step.  It takes the directory on top of its
\* stack and scans it; a directory that cannot be scanned yields nothing.
\* Otherwise it yields (root, dirs, files) and will descend into dirs, in
\* the order of the listing, before what was already pending.
WalkNext ==
    /\ pc = "walk"
    /\ stack # <<>>
    /\ LET top == stack[Len(stack)]
           rest == SubSeq(stack, 1, Len(stack) - 1)
           d == tree[top.id]
       IN  IF d.state = "ok"
           THEN /\ root' = top.path
                /\ rootId' = top.id
                /\ files' = d.files
                /\ fi' = 1
                /\ stack' = rest \o Reverse(Pending(top, d.dirs))
                /\ pc' = "files"
           ELSE /\ stack' = rest
                /\ pc' = ScanErrorIgnored
                /\ UNCHANGED <<root, rootId, files, fi>>
    /\ UNCHANGED <<tree, outExists, outfile, outOpen, inOpen, printed, status,
                   run, before, prevStatus, headers, bodies, trailers, opened,
                   outOpens, outCloses>>

\* A plausible slip: the print statement indented into the with block.
PrintInsideWith == "print"

\* Lines 6-19: after the for loop the with block of out ends, and only then
\* comes the print statement.
AfterLoop == "close_out"

\* Line 7: the generator is exhausted; the for loop ends and control leaves
\* the with block of line 6.
WalkDone ==
    /\ pc = "walk"
    /\ stack = <<>>
    /\ pc' = AfterLoop
    /\ UNCHANGED <<tree, outExists, outfile, outOpen, inOpen, stack, root,
                   rootId, files, fi, printed, status, run, before, prevStatus,
                   headers, bodies, trailers, opened, outOpens, outCloses>>

\* The file the inner loop is at.
Current == [dir |-> rootId, idx |-> fi]

CurrentFile == tree[rootId].files[fi]

\* Line 8: the list of filenames is exhausted.
FilesDone ==
    /\ pc = "files"
    /\ fi > Len(files)
    /\ pc' = "walk"
    /\ UNCHANGED <<tree, outExists, outfile, outOpen, inOpen, stack, root,
                   rootId, files, fi, printed, status, run, before, prevStatus,
                   headers, bodies, trailers, opened, outOpens, outCloses>>

\* Lines 8-9: the next filename does not end with a recognized suffix.
SkipFile ==
    /\ pc = "files"
    /\ fi <= Len(files)
    /\ ~Selected(files[fi].name)
    /\ fi' = fi + 1
    /\ UNCHANGED <<tree, outExists, outfile, outOpen, inOpen, pc, stack, root,
                   rootId, files, printed, status, run, before, prevStatus,
                   headers, bodies, trailers, opened, outOpens, outCloses>>

\* Lines 8-14: the next filename is selected; filepath and rel_path are
\* computed and the three header writes are made.
WriteHeader ==
    /\ pc = "files"
    /\ fi <= Len(files)
    /\ Selected(files[fi].name)
    /\ LET filepath == Join(root, files[fi].name)
           rel_path == RelPath(filepath, gpu_folder)
       IN  outfile' = outfile \o HeaderText(rel_path)
    /\ headers' = Append(headers, Current)
    /\ pc' = "open_in"
    /\ UNCHANGED <<tree, outExists, outOpen, inOpen, stack, root, rootId,
                   files, fi, printed, status, run, before, prevStatus, bodies,
                   trailers, opened, outOpens, outCloses>>

\* A plausible slip: a try/except around lines 15-16 that goes on with the
\* rest of the loop body.
SkipAndContinue == "trailer"

\* Lines 15-16 stand in no try block: an error of open() or read()
\* propagates.
OnInputError == "raise"

\* A plausible slip: what was decoded before the bad byte is written.
DecodedPrefix(bytes) ==
    LET bad == { i \in 1..Len(bytes) : bytes[i] = BAD }
        first == CHOOSE i \in bad : \A j \in bad : i <= j
    IN  IF bad = {} THEN bytes ELSE SubSeq(bytes, 1, first - 1)

\* Line 16: f.read() raises before out.write is called, so a file that does
\* not decode adds nothing to the output.
WrittenOnDecodeError(bytes) == <<>>

\* Line 15: open(filepath, "r", encoding="utf-8") succeeds.
OpenInput ==
    /\ pc = "open_in"
    /\ CurrentFile.readable
    /\ inOpen' = inOpen \cup {Current}
    /\ opened' = Append(opened, Current)
    /\ pc' = "read"
    /\ UNCHANGED <<tree, outExists, outfile, outOpen, stack, root, rootId,
                   files, fi, printed, status, run, before, prevStatus,
                   headers, bodies, trailers, outOpens, outCloses>>

\* Line 15: open() raises (permission denied, file gone since the listing).
OpenInputFails ==
    /\ pc = "open_in"
    /\ ~CurrentFile.readable
    /\ opened' = Append(opened, Current)
    /\ pc' = OnInputError
    /\ UNCHANGED <<tree, outExists, outfile, outOpen, inOpen, stack, root,
                   rootId, files, fi, printed, status, run, before, prevStatus,
                   headers, bodies, trailers, outOpens, outCloses>>

\* Line 16: out.write(f.read()).
ReadAndWrite ==
    /\ pc = "read"
    /\ Decodable(CurrentFile.bytes)
    /\ outfile' = outfile \o ReadText(CurrentFile.bytes)
    /\ bodies' = Append(bodies, Current)
    /\ pc' = "close_in"
    /\ UNCHANGED <<tree, outExists, outOpen, inOpen, stack, root, rootId,
                   files, fi, printed, status, run, before, prevStatus,
                   headers, trailers, opened, outOpens, outCloses>>

\* Line 16: f.read() raises UnicodeDecodeError; nothing is written.
ReadFails ==
    /\ pc = "read"
    /\ ~Decodable(CurrentFile.bytes)
    /\ outfile' = outfile \o WrittenOnDecodeError(CurrentFile.bytes)
    /\ pc' = OnInputError
    /\ UNCHANGED <<tree, outExists, outOpen, inOpen, stack, root,
                   rootId, files, fi, printed, status, run, before, prevStatus,
                   headers, bodies, trailers, opened, outOpens, outCloses>>

\* A plausible slip: the input is opened without `with` and never closed.
InputLeftOpen(handles) == handles

\* The handles left once the with block of line 15 has closed f.
InputClosed(handles) == handles \ {Current}

\* Lines 15-16: the with block of f ends normally and closes f.
CloseInput ==
    /\ pc = "close_in"
    /\ inOpen' = InputClosed(inOpen)
    /\ pc' = "trailer"
    /\ UNCHANGED <<tree, outExists, outfile, outOpen, stack, root, rootId,
                   files, fi, printed, status, run, before, prevStatus,
                   headers, bodies, trailers, opened, outOpens, outCloses>>

\* Line 17: out.write("\n\n"); the inner loop goes to the next filename.
WriteTrailer ==
    /\ pc = "trailer"
    /\ outfile' = outfile \o TrailerText
    /\ trailers' = Append(trailers, Current)
    /\ fi' = fi + 1
    /\ pc' = "files"
    /\ UNCHANGED <<tree, outExists, outOpen, inOpen, stack, root, rootId,
                   files, printed, status, run, before, prevStatus, headers,
                   bodies, opened, outOpens, outCloses>>

\* Line 6: the with block of out ends normally and closes out.
CloseOutput ==
    /\ pc = "close_out"
    /\ outOpen' = FALSE
    /\ outCloses' = outCloses + 1
    /\ pc' = "print"
    /\ UNCHANGED <<tree, outExists, outfile, inOpen, stack, root, rootId,
                   files, fi, printed, status, run, before, prevStatus,
                   headers, bodies, trailers, opened, outOpens>>

\* Line 19: print(...) and the end of the script.
PrintDone ==
    /\ pc = "print"
    /\ printed' = printed + 1
    /\ status' = 0
    /\ pc' = "exit"
    /\ UNCHANGED <<tree, outExists, outfile, outOpen, inOpen, stack, root,
                   rootId, files, fi, run, before, prevStatus, headers, bodies,
                   trailers, opened, outOpens, outCloses>>

\* Line 19: print(...) raises UnicodeEncodeError: the message is Cyrillic
\* and the encoding of stdout cannot represent it.
PrintFails ==
    /\ pc = "print"
    /\ pc' = "raise"
    /\ UNCHANGED <<tree, outExists, outfile, outOpen, inOpen, stack, root,
                   rootId, files, fi, printed, status, run, before, prevStatus,
                   headers, bodies, trailers, opened, outOpens, outCloses>>

\* An exception leaves the with block of line 15: f is closed.
UnwindInput ==
    /\ pc = "raise"
    /\ inOpen # {}
    /\ inOpen' = InputClosed(inOpen)
    /\ UNCHANGED <<tree, outExists, outfile, outOpen, pc, stack, root, rootId,
                   files, fi, printed, status, run, before, prevStatus,
                   headers, bodies, trailers, opened, outOpens, outCloses>>

\* An exception leaves the with block of line 6: out is closed.
UnwindOutput ==
    /\ pc = "raise"
    /\ inOpen = {}
    /\ outOpen
    /\ outOpen' = FALSE
    /\ outCloses' = outCloses + 1
    /\ UNCHANGED <<tree, outExists, outfile, inOpen, pc, stack, root, rootId,
                   files, fi, printed, status, run, before, prevStatus,
                   headers, bodies, trailers, opened, outOpens>>

\* The exception reaches the top level: traceback, exit status 1.
Traceback ==
    /\ pc = "raise"
    /\ inOpen = {}
    /\ ~outOpen
    /\ status' = 1
    /\ pc' = "exit"
    /\ UNCHANGED <<tree, outExists, outfile, outOpen, inOpen, stack, root,
                   rootId, files, fi, printed, run, before, prevStatus,
                   headers, bodies, trailers, opened, outOpens, outCloses>>

\* The script is run again on the same tree and the same gpu_code.txt.
RunAgain ==
    /\ pc = "exit"
    /\ run < MaxRuns
    /\ run' = run + 1
    /\ prevStatus' = status
    /\ before' = [exists |-> outExists, data |-> outfile]
    /\ outOpen' = FALSE
    /\ inOpen' = {}
    /\ pc' = "open_out"
    /\ stack' = <<>>
    /\ root' = <<>>
    /\ rootId' = RootId
    /\ files' = <<>>
    /\ fi' = 1
    /\ printed' = 0
    /\ status' = -1
    /\ headers' = <<>>
    /\ bodies' = <<>>
    /\ trailers' = <<>>
    /\ opened' = <<>>
    /\ outOpens' = 0
    /\ outCloses' = 0
    /\ UNCHANGED <<tree, outExists, outfile>>

Next ==
    \/ OpenOutput
    \/ OpenOutputFails
    \/ WalkNext
    \/ WalkDone
    \/ FilesDone
    \/ SkipFile
    \/ WriteHeader
    \/ OpenInput
    \/ OpenInputFails
    \/ ReadAndWrite
    \/ ReadFails
    \/ CloseInput
    \/ WriteTrailer
    \/ CloseOutput
    \/ PrintDone
    \/ PrintFails
    \/ UnwindInput
    \/ UnwindOutput
    \/ Traceback
    \/ RunAgain

Spec == Init /\ [][Next]_vars

SpecText == InitText /\ [][Next]_vars

-----------------------------------------------------------------------------
(* What the claims speak of, stated on the tree and on the output file    *)
(* independently of the definitions above.                                *)

\* The run has ended with exit status 0.
Completed == pc = "exit" /\ status = 0

FileAt(t, f) == t[f.dir].files[f.idx]

FilesOf(t, d) == [i \in 1..Len(t[d].files) |-> [dir |-> d, idx |-> i]]

AllFiles(t) == UNION { { FilesOf(t, d)[i] : i \in 1..Len(t[d].files) } : d \in DOMAIN t }

\* The name is some text followed by ".rs" or by ".wgsl", case as written.
HasSuffix(name) ==
    \E k \in 0..Len(name) :
        SubSeq(name, k + 1, Len(name)) \in {SuffixRs, SuffixWgsl}

\* The files of the tree, wherever they are, with a recognized suffix.
Matching(t) == { f \in AllFiles(t) : HasSuffix(FileAt(t, f).name) }

NonMatching(t) == AllFiles(t) \ Matching(t)

\* Top-down order: a directory's own files, then its subdirectories in the
\* order of the listing; a directory that cannot be listed contributes
\* nothing, and neither does anything below it.
RECURSIVE TopDown(_, _)
RECURSIVE TopDownAll(_, _)
TopDown(t, d) ==
    IF t[d].state # "ok" THEN <<>>
    ELSE FilesOf(t, d) \o TopDownAll(t, t[d].dirs)
TopDownAll(t, ds) ==
    IF ds = <<>> THEN <<>>
    ELSE TopDown(t, Head(ds)) \o TopDownAll(t, Tail(ds))

IsMatchingIn(t, f) == HasSuffix(FileAt(t, f).name)

\* The matching files the traversal visits, in the order it visits them.
Visited(t) ==
    LET all == TopDown(t, RootId)
        RECURSIVE Keep(_)
        Keep(q) == IF q = <<>> THEN <<>>
                   ELSE IF IsMatchingIn(t, Head(q))
                        THEN <<Head(q)>> \o Keep(Tail(q))
                        ELSE Keep(Tail(q))
    IN  Keep(all)

Range(q) == { q[i] : i \in 1..Len(q) }

\* The path of a file relative to src/gpu.
RelOf(t, f) ==
    IF f.dir = RootId THEN FileAt(t, f).name
    ELSE t[f.dir].name \o <<"/">> \o FileAt(t, f).name

Line(text) == text \o <<LF>>

\* delimiter line, FILE: line, delimiter line, blank line
ExpectedHeader(rel) ==
    Line(Delim) \o Line(FilePrefix \o rel) \o Line(Delim) \o Line(<<>>)

\* An entry with the given text for contents.
ExpectedEntry(rel, text) == ExpectedHeader(rel) \o text \o <<LF, LF>>

\* The contents with every "\r\n" and every other "\r" turned into "\n".
Translated(bytes) ==
    LET kept == { i \in 1..Len(bytes) :
                    ~(bytes[i] = LF /\ i > 1 /\ bytes[i - 1] = CR) }
        RECURSIVE Pick(_)
        Pick(i) == IF i > Len(bytes) THEN <<>>
                   ELSE IF i \in kept
                        THEN <<IF bytes[i] = CR THEN LF ELSE bytes[i]>> \o Pick(i + 1)
                        ELSE Pick(i + 1)
    IN  Pick(1)

\* The entries of the first n visited files, one after the other, with the
\* contents verbatim (asRead = FALSE) or as text mode hands them over.
RECURSIVE EntriesOf(_, _, _, _)
EntriesOf(t, order, n, asRead) ==
    IF n = 0 THEN <<>>
    ELSE LET f == order[n]
             b == FileAt(t, f).bytes
         IN  EntriesOf(t, order, n - 1, asRead)
             \o ExpectedEntry(RelOf(t, f), IF asRead THEN Translated(b) ELSE b)

\* Number of "FILE: " headers in a text.
HeaderCount(text) ==
    Cardinality({ i \in 1..Len(text) :
                    /\ i + Len(FilePrefix) - 1 <= Len(text)
                    /\ SubSeq(text, i, i + Len(FilePrefix) - 1) = FilePrefix })

\* The characters that occur in a text.
CharsOf(text) == Range(text)

RootMissing == tree[RootId].state = "missing"

-----------------------------------------------------------------------------
(* C1 *)

\* C1, as claimed: when src/gpu is missing entirely, the run ends with an
\* error (exit status not 0, no completion message) and gpu_code.txt is as
\* it was before the run (not created if it did not exist).
C1_MissingDirIsAnError ==
    (RootMissing /\ pc = "exit") =>
        /\ status # 0
        /\ printed = 0
        /\ outExists = before.exists
        /\ outfile = before.data

\* C1, amended: when src/gpu is missing entirely, the missing directory is
\* not an error: once gpu_code.txt has been opened it exists and is empty,
\* the walk yields nothing, no entry is written, the output is closed
\* normally and the run reaches the print statement; it ends with status 0
\* and the completion message unless the print itself fails.
C1_MissingDirYieldsEmptyOutput ==
    (RootMissing /\ outOpens = 1) =>
        /\ outExists
        /\ outfile = <<>>
        /\ headers = <<>>
        /\ pc \in {"walk", "close_out", "print", "raise", "exit"}
        /\ pc = "raise" => (~outOpen /\ outCloses = 1 /\ printed = 0)
        /\ pc = "exit" => (outCloses = 1 /\ (status = 0 <=> printed = 1))

\* A run over a missing src/gpu that ended with status 0 and the message,
\* and emptied a gpu_code.txt that held text before.
C1_Witness ==
    /\ RootMissing
    /\ Completed
    /\ printed = 1
    /\ before.exists
    /\ before.data = OldText
    /\ outfile = <<>>

-----------------------------------------------------------------------------
(* C2 *)

NoDuplicates(q) == \A i, j \in 1..Len(q) : q[i] = q[j] => i = j

\* C2, as claimed: a run that completes leaves exactly one entry for each
\* of the N files of the tree, at any depth, whose name ends with ".rs" or
\* ".wgsl", and nothing of the other files; with N = 0 the output exists
\* and is empty.
C2_OneEntryPerMatchingFile ==
    Completed =>
        /\ Range(headers) = Matching(tree)
        /\ NoDuplicates(headers)
        /\ bodies = headers
        /\ trailers = headers
        /\ HeaderCount(outfile) = Cardinality(Matching(tree))
        /\ \A f \in NonMatching(tree) :
               CharsOf(FileAt(tree, f).bytes) \cap CharsOf(outfile) = {}
        /\ Matching(tree) = {} => (outExists /\ outfile = <<>>)

\* C2, amended: N counts the matching files in the directories that the
\* walk can list (a directory that cannot be listed is passed over without
\* an error, with everything below it).
C2_OneEntryPerListedMatchingFile ==
    Completed =>
        /\ Range(headers) = Range(Visited(tree))
        /\ Range(headers) \subseteq Matching(tree)
        /\ NoDuplicates(headers)
        /\ bodies = headers
        /\ trailers = headers
        /\ HeaderCount(outfile) = Len(Visited(tree))
        /\ \A f \in NonMatching(tree) :
               CharsOf(FileAt(tree, f).bytes) \cap CharsOf(outfile) = {}
        /\ Visited(tree) = <<>> => (outExists /\ outfile = <<>>)

\* A completed run over a tree with a matching file in the subdirectory,
\* and a file that misses the suffix only by case.
C2_Witness ==
    /\ Completed
    /\ \E f \in Range(headers) : f.dir = SubId
    /\ \E f \in NonMatching(tree) :
           FileAt(tree, f).name = NameUpper /\ tree[f.dir].state = "ok"

-----------------------------------------------------------------------------
(* C3 *)

\* C3, as claimed: after a run that completes the output file is exactly
\* the entries of the matching files, in the order of the traversal, each
\* with the file's contents verbatim; what the file held before is gone.
C3_OutputIsEntriesVerbatim ==
    Completed =>
        outfile = EntriesOf(tree, Visited(tree), Len(Visited(tree)), FALSE)

\* C3, amended: the contents of an entry are those text mode hands to the
\* program: every "\r\n" and every other "\r" of the file is written as
\* "\n", the rest verbatim.
C3_OutputIsEntriesAsRead ==
    Completed =>
        outfile = EntriesOf(tree, Visited(tree), Len(Visited(tree)), TRUE)

\* A completed run that wrote two entries, one of them for the file with a
\* carriage return, over an output file that held text before.
C3_Witness ==
    /\ Completed
    /\ Len(headers) = 2
    /\ \E f \in Range(headers) : CR \in CharsOf(FileAt(tree, f).bytes)
    /\ before.exists
    /\ before.data = OldText

-----------------------------------------------------------------------------
(* Places in the output file of a completed run. *)

Char(text, i) == IF i \in 1..Len(text) THEN text[i] ELSE "EOF"

\* Length of the run of newlines that ends at place i.
RECURSIVE NewlinesEndingAt(_, _)
NewlinesEndingAt(text, i) ==
    IF Char(text, i) = LF THEN 1 + NewlinesEndingAt(text, i - 1) ELSE 0

\* Length of the run of newlines that starts at place i.
RECURSIVE NewlinesFrom(_, _)
NewlinesFrom(text, i) ==
    IF Char(text, i) = LF THEN 1 + NewlinesFrom(text, i + 1) ELSE 0

Order == Visited(tree)

BytesOf(k) == FileAt(tree, Order[k]).bytes

\* Where the k-th entry and its contents begin and end.
EntryStart(k) == Len(EntriesOf(tree, Order, k - 1, TRUE)) + 1
ContentStart(k) == EntryStart(k) + Len(ExpectedHeader(RelOf(tree, Order[k])))
ContentEnd(k) == ContentStart(k) + Len(Translated(BytesOf(k))) - 1
EntryEnd(k) == ContentEnd(k) + 2

\* Empty lines between the second delimiter line and the first line of the
\* contents that is not empty: the delimiter's own newline ends its line.
BlankLinesBefore(k) == NewlinesFrom(outfile, ContentStart(k) - 2) - 1

\* Empty lines between the last line of the contents and the next entry or
\* the end of the file: the first newline of the run ends a line.
BlankLinesAfter(k) == NewlinesEndingAt(outfile, EntryEnd(k)) - 1

\* The text from the end of the k-th header to the first blank-line
\* separator ("\n\n") that follows, or to the end of the file.
ExtractedContents(k) ==
    LET from == ContentStart(k)
        seps == { j \in from..Len(outfile) :
                    Char(outfile, j) = LF /\ Char(outfile, j + 1) = LF }
        stop == IF seps = {} THEN Len(outfile) + 1
                ELSE CHOOSE j \in seps : \A i \in seps : j <= i
    IN  SubSeq(outfile, from, stop - 1)

-----------------------------------------------------------------------------
(* C4 *)

\* C4, as claimed: in the output of a completed run, whatever the contents
\* of an included file, exactly one blank line separates the second
\* delimiter line from the contents, and the contents are followed by
\* exactly one blank line before the next delimiter line or the end.
C4_OneBlankLineAroundContents ==
    Completed =>
        \A k \in 1..Len(Order) :
            /\ Char(outfile, ContentStart(k) - 3) = "="
            /\ BlankLinesBefore(k) = 1
            /\ BlankLinesAfter(k) = 1
            /\ Char(outfile, EntryEnd(k) + 1) \in {"=", "EOF"}

\* C4, amended: the second delimiter line is followed by exactly one more
\* newline and then the contents as read, and those by exactly two
\* newlines and then the next delimiter line or the end.  That is exactly
\* one blank line before the contents when they are not empty and do not
\* begin with a newline, and exactly one blank line after them when they
\* are not empty and do not end with a newline.
C4_TwoNewlinesAroundContents ==
    Completed =>
        \A k \in 1..Len(Order) :
            LET text == Translated(BytesOf(k))
                cs == ContentStart(k)
                ce == ContentEnd(k)
            IN  /\ Char(outfile, cs - 3) = "="
                /\ Char(outfile, cs - 2) = LF
                /\ Char(outfile, cs - 1) = LF
                /\ SubSeq(outfile, cs, ce) = text
                /\ Char(outfile, ce + 1) = LF
                /\ Char(outfile, ce + 2) = LF
                /\ Char(outfile, ce + 3) \in {"=", "EOF"}
                /\ (text # <<>> /\ text[1] # LF) => BlankLinesBefore(k) = 1
                /\ (text # <<>> /\ text[Len(text)] # LF) => BlankLinesAfter(k) = 1

\* A completed run with an entry whose contents neither begin nor end with
\* a newline, followed by another entry.
C4_Witness ==
    /\ Completed
    /\ Len(Order) = 2
    /\ LET text == Translated(BytesOf(1))
       IN  text # <<>> /\ text[1] # LF /\ text[Len(text)] # LF
    /\ BlankLinesAfter(1) = 1
    /\ Char(outfile, EntryEnd(1) + 1) = "="

-----------------------------------------------------------------------------
(* C5 *)

\* C5, as claimed: for every included file of a completed run and whatever
\* its contents, the text between the entry's header and the first
\* blank-line separator that follows is the file's contents.
C5_RoundTrip ==
    Completed =>
        \A k \in 1..Len(Order) : ExtractedContents(k) = BytesOf(k)

\* The contents hold no carriage return, no two newlines in a row, and do
\* not end with a newline.
PlainContents(bytes) ==
    /\ CR \notin CharsOf(bytes)
    /\ \A i \in 1..(Len(bytes) - 1) : ~(bytes[i] = LF /\ bytes[i + 1] = LF)
    /\ bytes # <<>> => bytes[Len(bytes)] # LF

\* C5, amended: the round trip holds for the files whose contents hold no
\* carriage return and no two newlines in a row and do not end with a
\* newline.
C5_RoundTripOfPlainContents ==
    Completed =>
        \A k \in 1..Len(Order) :
            PlainContents(BytesOf(k)) => ExtractedContents(k) = BytesOf(k)

\* A completed run with an entry of plain contents that hold a newline,
\* followed by another entry.
C5_Witness ==
    /\ Completed
    /\ Len(Order) = 2
    /\ PlainContents(BytesOf(1))
    /\ LF \in CharsOf(BytesOf(1))
    /\ ExtractedContents(1) = BytesOf(1)

-----------------------------------------------------------------------------
(* C6 *)

\* C6: when the script is run twice in succession on an unchanged tree and
\* both runs complete, the output file after the second run is the output
\* file after the first: nothing is appended and nothing of the first
\* output is taken as input.
C6_SecondRunSameOutput ==
    (run >= 2 /\ Completed /\ prevStatus = 0) =>
        /\ outExists
        /\ outfile = before.data
        /\ HeaderCount(outfile) = Len(Order)

\* A second completed run, after a completed first, that wrote entries.
C6_Witness ==
    /\ run = 2
    /\ Completed
    /\ prevStatus = 0
    /\ Len(headers) >= 1
    /\ outfile # <<>>

-----------------------------------------------------------------------------
(* C7 *)

\* Opening or reading a selected file has failed in this run.
InputFailed == pc \in {"raise", "exit"} /\ Len(opened) > Len(bodies)

\* The file does not open or does not decode.
Unreadable(file) == ~file.readable \/ BAD \in CharsOf(file.bytes)

\* C7: when opening or reading a selected file fails, the run stops at that
\* file: the files opened are those up to it in traversal order and none
\* after it, the entries before it are complete and it has none, the
\* output holds only what was written before the failure, no completion
\* message is printed and the exit status is not 0.
C7_FailFast ==
    InputFailed =>
        LET k == Len(opened)
        IN  /\ k <= Len(Order)
            /\ opened = SubSeq(Order, 1, k)
            /\ Unreadable(FileAt(tree, opened[k]))
            /\ \A i \in 1..(k - 1) : ~Unreadable(FileAt(tree, opened[i]))
            /\ bodies = SubSeq(Order, 1, k - 1)
            /\ trailers = bodies
            /\ printed = 0
            /\ status # 0
            /\ pc = "exit" => status = 1
            /\ outfile = EntriesOf(tree, Order, k - 1, TRUE)
                         \o ExpectedHeader(RelOf(tree, Order[k]))

\* A run that ended on a file that failed, with a selected file after it
\* in traversal order left unopened.
C7_Witness ==
    /\ pc = "exit"
    /\ InputFailed
    /\ Len(opened) < Len(Order)
    /\ status = 1

-----------------------------------------------------------------------------
(* C8 *)

\* C8: at most one input handle is open, and only while the output handle
\* is; it is released before the next file is looked at; the output handle
\* is acquired once, before any step of the traversal, and released once,
\* on the completing path and on the aborting ones (a run whose
\* open(output_file) itself fails never holds a handle and traverses
\* nothing).
C8_Handles ==
    /\ Cardinality(inOpen) <= 1
    /\ inOpen # {} => outOpen
    /\ pc \in {"files", "open_in", "trailer", "walk", "close_out", "print"}
           => inOpen = {}
    /\ outOpens <= 1
    /\ outOpen <=> (outOpens = 1 /\ outCloses = 0)
    /\ outCloses <= outOpens
    /\ (pc \notin {"open_out", "raise", "exit"}) => outOpens = 1
    /\ (headers # <<>> \/ opened # <<>> \/ root # <<>>) => outOpens = 1
    /\ pc \in {"print", "exit"} => (inOpen = {} /\ outCloses = outOpens)
    /\ (pc = "exit" /\ outOpens = 0) => (status = 1 /\ outfile = before.data)

\* The second input file of a run is open, the first having been closed.
C8_Witness ==
    /\ pc = "read"
    /\ Len(bodies) = 1
    /\ Cardinality(inOpen) = 1
    /\ outOpen

-----------------------------------------------------------------------------
(* C9 *)

\* C9, as claimed: the completion message is printed at most once per run,
\* and only after the entry of every matching file has been fully written
\* and the output file has been closed; the exit status is 0 if and only
\* if the message was printed.
C9_MessageAfterAllEntries ==
    /\ printed <= 1
    /\ printed = 1 =>
           /\ Range(trailers) = Matching(tree)
           /\ bodies = trailers
           /\ headers = trailers
           /\ ~outOpen
           /\ outCloses = 1
    /\ pc = "exit" => (status = 0 <=> printed = 1)

\* C9, amended: the completion message is printed at most once per run,
\* and only after the entry of every matching file in a directory that the
\* walk could list has been fully written and the output file has been
\* closed; the exit status is 0 if and only if the message was printed.
C9_MessageAfterVisitedEntries ==
    /\ printed <= 1
    /\ printed = 1 =>
           /\ trailers = Order
           /\ bodies = trailers
           /\ headers = trailers
           /\ ~outOpen
           /\ outCloses = 1
    /\ pc = "exit" => (status = 0 <=> printed = 1)

\* The message has been printed after two entries were written.
C9_Witness ==
    /\ printed = 1
    /\ status = 0
    /\ Len(trailers) = 2

-----------------------------------------------------------------------------
(* C10 *)

IsPrefixOf(p, q) == Len(p) <= Len(q) /\ SubSeq(q, 1, Len(p)) = p

EndsWithText(text, tail) ==
    /\ Len(tail) <= Len(text)
    /\ SubSeq(text, Len(text) - Len(tail) + 1, Len(text)) = tail

\* C10: the header of a selected file is written before the file is opened;
\* so when opening or reading it fails, the output left behind ends with the
\* complete header of that file, with no contents and no trailing newlines
\* after it, every entry before it is complete, and the output holds one
\* "FILE:" header more than files whose contents were written.
C10_HeaderBeforeOpen ==
    /\ IsPrefixOf(opened, headers)
    /\ pc = "open_in" =>
           /\ headers = Append(opened, Current)
           /\ EndsWithText(outfile, ExpectedHeader(RelOf(tree, Current)))
    /\ InputFailed =>
           LET k == Len(headers)
           IN  /\ k = Len(bodies) + 1
               /\ headers[k] = opened[Len(opened)]
               /\ outfile = EntriesOf(tree, headers, k - 1, TRUE)
                            \o ExpectedHeader(RelOf(tree, headers[k]))
               /\ HeaderCount(outfile) = Len(bodies) + 1

\* A run that ended on a file that did not decode, after one complete
\* entry.
C10_Witness ==
    /\ pc = "exit"
    /\ InputFailed
    /\ Len(bodies) = 1
    /\ FileAt(tree, headers[Len(headers)]).readable

=============================================================================
